---- MODULE Spec2Model ----
(***************************************************************************)
(* View-synchronisation and session-state engine of the scheduling         *)
(* assistant front end: the calendar range loader (CalendarPage and        *)
(* HomeDashboard load effects) and the chat session controller (Chatbot    *)
(* and ChatWidget handleSend).                                             *)
(*                                                                         *)
(* Chat texts that the code builds by concatenation are sequences of       *)
(* string chunks, so that template literals, trim and join are computed    *)
(* rather than assumed.  Dates are whole hours of local time, with the     *)
(* calendar computed from the day number; day keys and event ids are       *)
(* strings.                                                                *)
(***************************************************************************)
EXTENDS Integers, Sequences, FiniteSets, TLC

(***************************************************************************)
(* Bounds of the model.                                                    *)
(***************************************************************************)
MaxRequests == 3
MaxMonthOffset == 1
MaxSends == 3
MaxTicks == 1

(***************************************************************************)
(* Program constants.                                                      *)
(***************************************************************************)
DAYS_TO_FETCH == 60
EVENTS_LIMIT == 6

Null == "null"

(***************************************************************************)
(* Backend data: events as the calendar endpoint returns them.             *)
(***************************************************************************)
ApiEvent(id, title, start) == [id |-> id, title |-> title, start_time |-> start]

(* Responses of the backend: none, one event, two events of one day in     *)
(* descending order (the first without id) and one of the next day, and    *)
(* two id-less events alike in title and start followed by an event whose  *)
(* start is no date.                                                       *)
Payloads ==
  { <<>>,
    <<ApiEvent("e1", "Standup", "2024-03-10T10:00")>>,
    <<ApiEvent(Null, "Review", "2024-03-10T18:00"), ApiEvent("e2", "Lunch", "2024-03-10T05:00"),
      ApiEvent("e4", "Retro", "2024-03-11T06:00")>>,
    <<ApiEvent(Null, "Sync", "2024-03-11T06:00"), ApiEvent(Null, "Sync", "2024-03-11T06:00"),
      ApiEvent("e3", "Draft", "tomorrow")>> }

Uuids == {"uuid-1", "uuid-2"}

(***************************************************************************)
(* Raw HTTP outcomes of GET /api/calendar/events as fetch() delivers them. *)
(* body.t: "empty" (no text), "text" (text that is not JSON), "scalar"     *)
(* (JSON that is no object), "object" (a JSON object with the fields       *)
(* named in body.fields).                                                  *)
(***************************************************************************)
NetworkFailure == [kind |-> "network"]
HttpResponse(ok, status, body) == [kind |-> "http", ok |-> ok, status |-> status, body |-> body]
EmptyBody == [t |-> "empty"]
TextBody == [t |-> "text"]
ScalarBody == [t |-> "scalar"]
ObjectBody(fields) == [t |-> "object", fields |-> fields]

RawCalendarResponses ==
  { NetworkFailure,
    HttpResponse(FALSE, 500, EmptyBody),
    HttpResponse(FALSE, 401, ObjectBody([detail |-> "Not authenticated with Google"])),
    HttpResponse(TRUE, 200, EmptyBody),
    HttpResponse(TRUE, 200, TextBody),
    HttpResponse(TRUE, 200, ScalarBody),
    HttpResponse(TRUE, 200, ObjectBody([success |-> TRUE])) }
  \cup { HttpResponse(TRUE, 200, ObjectBody([events |-> p])) : p \in Payloads }

AbortedFetch == [kind |-> "abort"]

Thrown(message) == [ok |-> FALSE, message |-> message, data |-> <<>>]
Returned(data) == [ok |-> TRUE, message |-> "", data |-> data]

(* `Calendar request failed with status ${response.status}` *)
StatusMessage(status) ==
  CASE status = 500 -> "Calendar request failed with status 500"
    [] status = 401 -> "Calendar request failed with status 401"
    [] OTHER -> "Calendar request failed with status ?"

(* fetchCalendarEvents: what the awaited call yields for a raw outcome,    *)
(* a returned events array or a thrown Error with its message.             *)
fetchCalendarEvents(raw) ==
  IF raw.kind = "network" THEN Thrown("Failed to fetch")
  ELSE IF raw.kind = "abort" THEN Thrown("The operation was aborted.")
  ELSE LET parsed == raw.body
           isObject == parsed.t = "object"
       IN IF ~raw.ok
          THEN IF isObject /\ "detail" \in DOMAIN parsed.fields
               THEN Thrown(parsed.fields.detail)
               ELSE Thrown(StatusMessage(raw.status))
          ELSE IF ~isObject
               THEN Thrown("Calendar service returned an unexpected response.")
               ELSE IF "events" \notin DOMAIN parsed.fields
                    THEN Thrown("Calendar response did not include event data.")
                    ELSE Returned(parsed.fields.events)

(***************************************************************************)
(* Date values.  A valid Date is a whole number of hours since             *)
(* 1970-01-01T00:00 local time (a local day is 24 of them, no clock        *)
(* changes); Invalid Date has no time value.  The getters and setters are  *)
(* the ones of the built-in Date that the components call, with the        *)
(* proleptic Gregorian calendar computed from the day number.              *)
(***************************************************************************)
DateAt(t) == [valid |-> TRUE, time |-> t]
InvalidDate == [valid |-> FALSE, time |-> 0]

(* Day number of the first day of month m (0 = January, any integer) of    *)
(* year y.                                                                 *)
DaysFromCivil(y, m) ==
  LET yy == y + (m \div 12)
      mm == (m % 12) + 1
      yr == IF mm <= 2 THEN yy - 1 ELSE yy
      era == yr \div 400
      yoe == yr - era * 400
      doy == (153 * (IF mm > 2 THEN mm - 3 ELSE mm + 9) + 2) \div 5
      doe == yoe * 365 + (yoe \div 4) - (yoe \div 100) + doy
  IN era * 146097 + doe - 719468

(* Year, month (0..11) and day of the month of day number z.               *)
CivilFromDays(z) ==
  LET zz == z + 719468
      era == zz \div 146097
      doe == zz - era * 146097
      yoe == (doe - (doe \div 1460) + (doe \div 36524) - (doe \div 146096)) \div 365
      doy == doe - (365 * yoe + (yoe \div 4) - (yoe \div 100))
      mp == (5 * doy + 2) \div 153
      mm == IF mp < 10 THEN mp + 3 ELSE mp - 9
  IN [year |-> yoe + era * 400 + (IF mm <= 2 THEN 1 ELSE 0),
      month |-> mm - 1,
      date |-> doy - ((153 * mp + 2) \div 5) + 1]

(* new Date(year, monthIndex, day, hours): day and month overflow carry.   *)
MakeDate(y, m, d, h) == DateAt(24 * (DaysFromCivil(y, m) + d - 1) + h)

getTime(d) == d.time
getHours(d) == d.time % 24
getFullYear(d) == CivilFromDays(d.time \div 24).year
getMonth(d) == CivilFromDays(d.time \div 24).month
getDate(d) == CivilFromDays(d.time \div 24).date
(* 0..6, Sunday..Saturday; 1970-01-01 was a Thursday. *)
getDay(d) == ((d.time \div 24) + 4) % 7

setHours0(d) == DateAt(24 * (d.time \div 24))
setDate(d, n) == MakeDate(getFullYear(d), getMonth(d), n, getHours(d))
setMonth(d, m) == MakeDate(getFullYear(d), m, getDate(d), getHours(d))

(* new Date(value) for the start_time strings of the model: the strings    *)
(* that parse, with their instants; every other string is no date.         *)
toDate(value) ==
  CASE value = "2024-03-10T05:00" -> MakeDate(2024, 2, 10, 5)
    [] value = "2024-03-10T10:00" -> MakeDate(2024, 2, 10, 10)
    [] value = "2024-03-10T12:00" -> MakeDate(2024, 2, 10, 12)
    [] value = "2024-03-10T18:00" -> MakeDate(2024, 2, 10, 18)
    [] value = "2024-03-11T06:00" -> MakeDate(2024, 2, 11, 6)
    [] OTHER -> InvalidDate

(* String(n).padStart(2, "0") *)
padStart2(n) == IF Len(ToString(n)) < 2 THEN "0" \o ToString(n) ELSE ToString(n)

(* Variant: the key cut from the UTC text of the instant, in a zone five   *)
(* hours behind UTC.                                                       *)
ymdOfUtcText(d) ==
  IF d.valid
  THEN ToString(getFullYear(DateAt(d.time + 5))) \o "-"
         \o padStart2(getMonth(DateAt(d.time + 5)) + 1) \o "-"
         \o padStart2(getDate(DateAt(d.time + 5)))
  ELSE "NaN-NaN-NaN"

(* Calendar.tsx ymd: the getters of Invalid Date return NaN.               *)
ymd(d) ==
  IF d.valid
  THEN ToString(getFullYear(d)) \o "-" \o padStart2(getMonth(d) + 1) \o "-" \o padStart2(getDate(d))
  ELSE "NaN-NaN-NaN"

(* home.tsx toLocalKey *)
toLocalKey(date) ==
  IF date.valid
  THEN ToString(getFullYear(date)) \o "-" \o padStart2(getMonth(date) + 1)
         \o "-" \o padStart2(getDate(date))
  ELSE "NaN-NaN-NaN"

(* Calendar.tsx date helpers *)
startOfDay(d) == setHours0(d)
isSameDay(a, b) == getTime(startOfDay(a)) = getTime(startOfDay(b))
(* Variant: two dates of one year count as of one month. *)
isSameMonthYearOnly(a, b) == getFullYear(a) = getFullYear(b)

isSameMonth(a, b) == getFullYear(a) = getFullYear(b) /\ getMonth(a) = getMonth(b)
addDays(d, n) == setDate(d, getDate(d) + n)
(* Variant: a month taken to be thirty days. *)
addMonthsByThirtyDays(d, n) == setDate(d, getDate(d) + 30 * n)
addMonths(d, n) == setMonth(d, getMonth(d) + n)
startOfMonth(d) == MakeDate(getFullYear(d), getMonth(d), 1, 0)
(* Variant: weeks that start on Sunday whatever the setting. *)
startOfWeekSundayOnly(d, wso) ==
  LET x == startOfDay(d)
  IN addDays(x, -getDay(x))

startOfWeek(d, wso) ==
  LET x == startOfDay(d)
      day == getDay(x)
      diff == IF wso = 1 THEN (IF day = 0 THEN 6 ELSE day - 1) ELSE day
  IN addDays(x, -diff)

(***************************************************************************)
(* Event normalisation.                                                    *)
(***************************************************************************)
(* Calendar.tsx ensureId: the source id when present, else a random UUID   *)
(* (rnd is the value crypto.randomUUID() returns), else, where the         *)
(* platform has no crypto.randomUUID (rnd = Null), a template of index and *)
(* seed.                                                                   *)
ensureId(id, fallbackSeed, index, rnd) ==
  IF id # Null THEN id
  ELSE IF rnd # Null THEN rnd
  ELSE "event_" \o ToString(index) \o "_" \o fallbackSeed

(* Calendar.tsx loadEvents, data.events.map(...): rnd[i] is the UUID drawn *)
(* for the event at position i; array indices count from 0.                *)
NormalizeCal(data, rnd) ==
  [i \in 1..Len(data) |->
     [id |-> ensureId(data[i].id, data[i].start_time, i - 1, rnd[i]),
      title |-> data[i].title,
      start |-> data[i].start_time]]

(* start.toLocaleString(...) in home.tsx formatEvent *)
toLocaleString(d) ==
  IF d.valid
  THEN padStart2(getMonth(d) + 1) \o "/" \o padStart2(getDate(d)) \o " " \o padStart2(getHours(d)) \o ":00"
  ELSE "Invalid Date"

(* home.tsx formatEvent *)
formatEvent(ev) ==
  [id |-> IF ev.id # Null THEN ev.id ELSE ev.title \o "-" \o ev.start_time,
   title |-> ev.title,
   when |-> toLocaleString(toDate(ev.start_time))]

(* The comparator of the sort in home.tsx: the difference of the two time  *)
(* values, NaN when either date is invalid, and sort reads NaN as +0.      *)
CompareStart(a, b) ==
  IF toDate(a.start_time).valid /\ toDate(b.start_time).valid
  THEN getTime(toDate(a.start_time)) - getTime(toDate(b.start_time))
  ELSE 0

(* home.tsx: [...response.events].sort(comparator), a stable insertion     *)
(* sort: each element moves left past the elements that compare greater.   *)
RECURSIVE InsertByStart(_, _)
InsertByStart(sorted, ev) ==
  IF sorted = <<>> \/ CompareStart(sorted[Len(sorted)], ev) <= 0
  THEN Append(sorted, ev)
  ELSE Append(InsertByStart(SubSeq(sorted, 1, Len(sorted) - 1), ev), sorted[Len(sorted)])

RECURSIVE SortByStart(_)
SortByStart(evs) ==
  IF evs = <<>> THEN <<>>
  ELSE InsertByStart(SortByStart(SubSeq(evs, 1, Len(evs) - 1)), evs[Len(evs)])

EmptyMap == [k \in {} |-> <<>>]

(* Variant: a push that replaces the list stored under the key. *)
MapPushReplaces(map, key, item) ==
  [k \in DOMAIN map \cup {key} |-> IF k = key THEN <<item>> ELSE map[k]]

(* map.get(key) ?? [], push, map.set(key, list) *)
MapPush(map, key, item) ==
  [k \in DOMAIN map \cup {key} |->
     IF k = key THEN (IF key \in DOMAIN map THEN Append(map[key], item) ELSE <<item>>)
     ELSE map[k]]

(* Calendar.tsx eventsByDay: for (const ev of events) push under ymd(start) *)
RECURSIVE IndexCal(_)
IndexCal(evs) ==
  IF evs = <<>> THEN EmptyMap
  ELSE MapPush(IndexCal(SubSeq(evs, 1, Len(evs) - 1)),
               ymd(toDate(evs[Len(evs)].start)), evs[Len(evs)])

(* home.tsx: sorted.forEach(ev => map[toLocalKey(start)].push(formatEvent(ev))) *)
RECURSIVE IndexHome(_)
IndexHome(sorted) ==
  IF sorted = <<>> THEN EmptyMap
  ELSE MapPush(IndexHome(SubSeq(sorted, 1, Len(sorted) - 1)),
               toLocalKey(toDate(sorted[Len(sorted)].start_time)),
               formatEvent(sorted[Len(sorted)]))

Slice(s, n) == SubSeq(s, 1, IF Len(s) < n THEN Len(s) ELSE n)
FormatAll(evs) == [i \in 1..Len(evs) |-> formatEvent(evs[i])]

(***************************************************************************)
(* State.                                                                  *)
(***************************************************************************)
VARIABLES
  consumer,        \* which component owns the loader: "CalendarPage" | "HomeDashboard"
  phase,           \* "fresh" (rendered, effects not yet run) | "mounted" | "unmounted"
  now,             \* the instant new Date() yields
  utcOffset,       \* the browser's time zone: hours that local time is ahead of UTC
  weekStartsOn,    \* CalendarPage's weekStartsOn prop: 0 (Sunday) | 1 (Monday)
  viewDate,        \* the Date of the viewed month
  selectedDate,    \* the selected day: a Date (CalendarPage) | a day key (HomeDashboard)
  externalEvents,  \* CalendarPage's events prop: [defined, value]
  events,          \* the event collection
  eventsByDay,     \* the event index
  isLoading,       \* isLoading (CalendarPage) / loading (HomeDashboard)
  error,           \* Null or the error message
  requests,        \* every range request issued, in issue order
  query,           \* rangeStart and rangeEnd of the current run of the load effect
  controller,      \* index in requests of the current effect's AbortController, 0 if none
  delivered,       \* what the current controller's fetch has yielded so far
  chatKind,        \* "Chatbot" (chatbot.tsx) | "ChatWidget" (home.tsx)
  messages,        \* chat history
  ids,             \* the id of each message of the history (Chatbot; ChatWidget has none)
  clock,           \* what Date.now() yields
  input,           \* text of the input box
  isSending,       \* single-flight flag
  conversationId,  \* continuity token, Null while undefined
  signedIn,        \* whether auth.currentUser is set
  calls,           \* every accepted handleSend call, in call order
  lastCall         \* what the most recent chat step was

loaderVars == <<consumer, now, utcOffset, weekStartsOn, selectedDate, phase, viewDate, externalEvents, events, eventsByDay,
                isLoading, error, requests, query, controller, delivered>>
chatVars == <<chatKind, signedIn, clock, messages, ids, input, isSending, conversationId, calls, lastCall>>
vars == <<loaderVars, chatVars>>

Undefined == [defined |-> FALSE, value |-> <<>>]
Defined(v) == [defined |-> TRUE, value |-> v]

NotYet == [state |-> "pending", ok |-> FALSE, message |-> "", data |-> <<>>]
Yielded(res) == [state |-> "settled", ok |-> res.ok, message |-> res.message, data |-> res.data]

(* A range request in flight: its controller's signal and whether its      *)
(* promise has settled.  Any response can come back for any range.         *)
(* fetchCalendarEvents sends the Content-Type header and no Authorization  *)
(* header.                                                                 *)
(* const today = startOfDay(new Date()) *)
today == startOfDay(now)

(* The range a run of the load effect asks for while view is the viewed    *)
(* month: CalendarPage the span of its grid, HomeDashboard from the start  *)
(* of today to DAYS_TO_FETCH days from now.                                *)
rangeStart(view) ==
  IF consumer = "CalendarPage"
  THEN startOfWeek(startOfMonth(view), weekStartsOn)
  ELSE setHours0(now)

rangeEnd(view) ==
  IF consumer = "CalendarPage"
  THEN addDays(rangeStart(view), 42)
  ELSE setDate(now, getDate(now) + DAYS_TO_FETCH)

NewRequest == [aborted |-> FALSE, pending |-> TRUE, authorization |-> FALSE]

(* rangeStart and rangeEnd as a run of the load effect passes them to      *)
(* fetchCalendarEvents, and their value while no run has computed them.    *)
NewQuery(view) == [start |-> rangeStart(view), end |-> rangeEnd(view)]
NoQuery == [start |-> InvalidDate, end |-> InvalidDate]

ExternalChoices ==
  { <<>>, <<[id |-> "x1", title |-> "External", start |-> "2024-03-10T12:00"]>> }

(***************************************************************************)
(* Range loader.                                                           *)
(***************************************************************************)
Consumers == {"CalendarPage", "HomeDashboard"}

(* useState initial values: CalendarPage isLoading = false, HomeDashboard  *)
(* loading = true.                                                         *)
(* The instant of the model's present, 2024-03-10 09:00, a Sunday. *)
PresentTime == MakeDate(2024, 2, 10, 9)

(* The component as first rendered at one of the given instants, with one  *)
(* of the given weekStartsOn props (HomeDashboard's grid has none: its     *)
(* weeks start on Sunday).                                                 *)
InitLoaderAt(instants, weekStarts) ==
  /\ consumer \in Consumers
  /\ now \in instants
  /\ weekStartsOn \in (IF consumer = "CalendarPage" THEN weekStarts ELSE {0})
  /\ phase = "fresh"
  /\ viewDate = startOfMonth(today)
  /\ selectedDate = (IF consumer = "CalendarPage" THEN today ELSE toLocalKey(setHours0(now)))
  /\ externalEvents = Undefined
  /\ events = <<>>
  /\ eventsByDay = EmptyMap
  /\ isLoading = (consumer = "HomeDashboard")
  /\ error = Null
  /\ requests = <<>>
  /\ query = NoQuery
  /\ controller = 0
  /\ delivered = NotYet

(* CalendarPage as App.tsx renders it (weekStartsOn={0}, no events prop)   *)
(* or HomeDashboard, first rendered at the present.                        *)
InitLoader == InitLoaderAt({PresentTime}, {0}) /\ utcOffset = 0

(* The effect's cleanup, return () => controller.abort(): aborts the       *)
(* controller the previous run of the effect created, if it created one.   *)
(* Variant: a cleanup that leaves the previous controller alone. *)
CleanupSkipsAbort(reqs, c) == reqs

(* return () => controller.abort() *)
Cleanup(reqs, c) == IF c = 0 THEN reqs ELSE [reqs EXCEPT ![c].aborted = TRUE]

(* Whether a run of the load effect issues a request: CalendarPage returns *)
(* early when the events prop is defined.                                  *)
Loads(ext) == ~(consumer = "CalendarPage" /\ ext.defined)

(* Variant: a run of the load effect that leaves the error standing. *)
LoadEffectKeepsError(reqs, ext, view) ==
  IF Loads(ext)
  THEN /\ requests' = Append(reqs, NewRequest)
       /\ query' = NewQuery(view)
       /\ controller' = Len(reqs) + 1
       /\ delivered' = NotYet
       /\ isLoading' = TRUE
       /\ UNCHANGED error
  ELSE /\ requests' = reqs
       /\ query' = NoQuery
       /\ controller' = 0
       /\ delivered' = NotYet
       /\ UNCHANGED <<isLoading, error>>

(* Variant: a run of the load effect that leaves the loading flag alone. *)
LoadEffectSkipsLoading(reqs, ext, view) ==
  IF Loads(ext)
  THEN /\ requests' = Append(reqs, NewRequest)
       /\ query' = NewQuery(view)
       /\ controller' = Len(reqs) + 1
       /\ delivered' = NotYet
       /\ error' = Null
       /\ UNCHANGED isLoading
  ELSE /\ requests' = reqs
       /\ query' = NoQuery
       /\ controller' = 0
       /\ delivered' = NotYet
       /\ UNCHANGED <<isLoading, error>>

(* One run of the load effect after the previous run's cleanup left reqs:  *)
(* new AbortController, setIsLoading(true), setError(null), fetch issued.  *)
LoadEffect(reqs, ext, view) ==
  IF Loads(ext)
  THEN /\ requests' = Append(reqs, NewRequest)
       /\ query' = NewQuery(view)
       /\ controller' = Len(reqs) + 1
       /\ delivered' = NotYet
       /\ isLoading' = TRUE
       /\ error' = Null
  ELSE /\ requests' = reqs
       /\ query' = NoQuery
       /\ controller' = 0
       /\ delivered' = NotYet
       /\ UNCHANGED <<isLoading, error>>

(* First commit: the effects run for the first time. *)
Mount ==
  /\ phase = "fresh"
  /\ phase' = "mounted"
  /\ LoadEffect(requests, externalEvents, viewDate)
  /\ UNCHANGED <<consumer, now, utcOffset, weekStartsOn, selectedDate, viewDate, externalEvents, events, eventsByDay, chatVars>>

(* How many months d's month lies after the current one. *)
MonthsFromToday(d) ==
  (12 * getFullYear(d) + getMonth(d)) - (12 * getFullYear(today) + getMonth(today))

(* Variant: a month change that empties the collection and the index. *)
ChangeMonthClearsEvents(offset) ==
  /\ phase = "mounted"
  /\ MonthsFromToday(addMonths(viewDate, offset)) \in -MaxMonthOffset..MaxMonthOffset
  /\ Loads(externalEvents) => Len(requests) < MaxRequests
  /\ viewDate' = addMonths(viewDate, offset)
  /\ events' = <<>>
  /\ eventsByDay' = EmptyMap
  /\ LoadEffect(Cleanup(requests, controller), externalEvents, viewDate')
  /\ UNCHANGED <<consumer, now, utcOffset, weekStartsOn, selectedDate, phase, externalEvents, chatVars>>

(* prevMonth / nextMonth (CalendarPage), changeMonth(offset) (HomeDashboard): *)
(* a new Date object every time, so the load effect always re-runs.        *)
ChangeMonth(offset) ==
  /\ phase = "mounted"
  /\ MonthsFromToday(addMonths(viewDate, offset)) \in -MaxMonthOffset..MaxMonthOffset
  /\ Loads(externalEvents) => Len(requests) < MaxRequests
  /\ viewDate' = addMonths(viewDate, offset)
  /\ LoadEffect(Cleanup(requests, controller), externalEvents, viewDate')
  /\ UNCHANGED <<consumer, now, utcOffset, weekStartsOn, selectedDate, phase, externalEvents, events, eventsByDay, chatVars>>

PrevMonth == ChangeMonth(-1)
NextMonth == ChangeMonth(1)

(* CalendarPage goToday: setViewDate(startOfMonth(today)), a new Date, and *)
(* setSelectedDate(today).                                                 *)
GoToday ==
  /\ phase = "mounted"
  /\ consumer = "CalendarPage"
  /\ Loads(externalEvents) => Len(requests) < MaxRequests
  /\ viewDate' = startOfMonth(today)
  /\ selectedDate' = today
  /\ LoadEffect(Cleanup(requests, controller), externalEvents, viewDate')
  /\ UNCHANGED <<consumer, now, utcOffset, weekStartsOn, phase, externalEvents, events, eventsByDay, chatVars>>

(* The parent re-renders CalendarPage with another events prop: the first  *)
(* effect copies a defined prop into events, the load effect is cleaned up *)
(* and re-run.                                                             *)
SetExternalEvents(ext) ==
  /\ phase = "mounted"
  /\ consumer = "CalendarPage"
  /\ ext # externalEvents \/ ext.defined
  /\ Loads(ext) => Len(requests) < MaxRequests
  /\ externalEvents' = ext
  /\ events' = IF ext.defined THEN ext.value ELSE events
  /\ eventsByDay' = IndexCal(events')
  /\ LoadEffect(Cleanup(requests, controller), ext, viewDate)
  /\ UNCHANGED <<consumer, now, utcOffset, weekStartsOn, selectedDate, phase, viewDate, chatVars>>

(* Unmount: the cleanup aborts the current controller. *)
Unmount ==
  /\ phase = "mounted"
  /\ phase' = "unmounted"
  /\ requests' = Cleanup(requests, controller)
  /\ query' = NoQuery
  /\ controller' = 0
  /\ delivered' = NotYet
  /\ UNCHANGED <<consumer, now, utcOffset, weekStartsOn, selectedDate, viewDate, externalEvents, events, eventsByDay,
                 isLoading, error, chatVars>>

(* What fetch can still deliver for request r: any response, and for an    *)
(* aborted signal also the AbortError rejection.  A response whose body    *)
(* was read completely before abort() still fulfils the promise.           *)
Deliverable(r) ==
  IF requests[r].aborted THEN RawCalendarResponses \cup {AbortedFetch}
  ELSE RawCalendarResponses

(* The continuation of loadEvents after the await, for the request r of    *)
(* the effect run that owns it; aborted is that run's controller.signal.   *)
ApplySuccess(aborted, data, rnd) ==
  /\ IF consumer = "CalendarPage"
     THEN /\ events' = NormalizeCal(data, rnd)
          /\ eventsByDay' = IndexCal(events')
     ELSE /\ events' = FormatAll(Slice(SortByStart(data), EVENTS_LIMIT))
          /\ eventsByDay' = IndexHome(SortByStart(data))
  /\ isLoading' = IF aborted THEN isLoading ELSE FALSE
  /\ UNCHANGED error

(* Variant: a failure that keeps the events of the previous load. *)
ApplyFailureKeepsEvents(aborted, message) ==
  IF aborted
  THEN UNCHANGED <<events, eventsByDay, error, isLoading>>
  ELSE /\ error' = message
       /\ isLoading' = FALSE
       /\ UNCHANGED <<events, eventsByDay>>

ApplyFailure(aborted, message) ==
  IF aborted
  THEN UNCHANGED <<events, eventsByDay, error, isLoading>>
  ELSE /\ error' = message
       /\ events' = <<>>
       /\ eventsByDay' = EmptyMap
       /\ isLoading' = FALSE

Resolve(r, raw, rnd) ==
  /\ r \in 1..Len(requests)
  /\ requests[r].pending
  /\ raw \in Deliverable(r)
  /\ LET res == fetchCalendarEvents(raw)
     IN /\ requests' = [requests EXCEPT ![r].pending = FALSE]
        /\ delivered' = IF r = controller THEN Yielded(res) ELSE delivered
        /\ IF phase = "unmounted"
           THEN UNCHANGED <<events, eventsByDay, error, isLoading>>
           ELSE IF res.ok
                THEN ApplySuccess(requests[r].aborted, res.data, rnd)
                ELSE ApplyFailure(requests[r].aborted, res.message)
  /\ UNCHANGED <<consumer, now, utcOffset, weekStartsOn, selectedDate, phase, viewDate, externalEvents, query, controller,
                 chatVars>>

(* The values crypto.randomUUID() returns while one response is mapped:    *)
(* one for every event without id, no two alike, Null for the events that  *)
(* have an id (it is not called) and Null throughout on a platform without *)
(* crypto.randomUUID.  It is called on the success path only.              *)
RndChoices(data) ==
  {f \in [1..Len(data) -> Uuids \cup {Null}] :
     /\ \A i \in 1..Len(data) : data[i].id # Null => f[i] = Null
     /\ \/ \A i \in 1..Len(data) : f[i] = Null
        \/ \A i, j \in 1..Len(data) :
             data[i].id = Null => f[i] # Null /\ (i # j => f[i] # f[j])}

Draws(raw) ==
  IF raw # AbortedFetch /\ fetchCalendarEvents(raw).ok
  THEN RndChoices(fetchCalendarEvents(raw).data)
  ELSE {<<>>}

ResponseArrives ==
  \E r \in 1..Len(requests) :
    \E raw \in RawCalendarResponses \cup {AbortedFetch} :
      \E rnd \in Draws(raw) : Resolve(r, raw, rnd)

ExternalEventsChange ==
  \E ext \in {Undefined} \cup {Defined(v) : v \in ExternalChoices} : SetExternalEvents(ext)

NextLoader ==
  \/ Mount
  \/ PrevMonth
  \/ NextMonth
  \/ GoToday
  \/ ExternalEventsChange
  \/ Unmount
  \/ ResponseArrives

(***************************************************************************)
(* Chat session controller.                                                *)
(***************************************************************************)
ChatKinds == {"Chatbot", "ChatWidget"}

(* What the user can have typed: texts of one-character chunks. *)
Inputs == { <<>>, <<" ">>, <<" ", "a", " ">> }

(* String.prototype.trim on a text of one-character chunks *)
RECURSIVE TrimLeft(_)
TrimLeft(s) == IF s # <<>> /\ Head(s) = " " THEN TrimLeft(Tail(s)) ELSE s
RECURSIVE TrimRight(_)
TrimRight(s) == IF s # <<>> /\ s[Len(s)] = " " THEN TrimRight(SubSeq(s, 1, Len(s) - 1)) ELSE s
trim(s) == TrimRight(TrimLeft(s))

ConvIds == {"abc123", "xyz789"}

(* Raw HTTP outcomes of POST /api/chat/message. *)
RawChatResponses ==
  { NetworkFailure,
    HttpResponse(FALSE, 500, EmptyBody),
    HttpResponse(FALSE, 500, ObjectBody([message |-> ""])),
    HttpResponse(TRUE, 200, ObjectBody([success |-> TRUE, conversation_id |-> "abc123"])),
    HttpResponse(TRUE, 200, ObjectBody([message |-> "Done", success |-> TRUE])) }
  \cup { HttpResponse(TRUE, 200,
           ObjectBody([message |-> "Done", success |-> TRUE, conversation_id |-> c])) :
         c \in ConvIds }

HasString(fields, name) == name \in DOMAIN fields
Field(fields, name) == IF name \in DOMAIN fields THEN fields[name] ELSE Null
Truthy(fields, name) == name \in DOMAIN fields /\ fields[name] = TRUE
ListField(fields, name) == IF name \in DOMAIN fields THEN fields[name] ELSE <<>>

ChatThrown(message) ==
  [ok |-> FALSE, error |-> message, message |-> Null, success |-> FALSE,
   conversation_id |-> Null, suggestions |-> <<>>, requires_confirmation |-> FALSE,
   agent_actions |-> <<>>]
ChatReturned(fields) ==
  [ok |-> TRUE, error |-> "", message |-> Field(fields, "message"),
   success |-> Truthy(fields, "success"),
   conversation_id |-> Field(fields, "conversation_id"),
   suggestions |-> ListField(fields, "suggestions"),
   requires_confirmation |-> Truthy(fields, "requires_confirmation"),
   agent_actions |-> ListField(fields, "agent_actions")]

(* `Chat request failed with status ${response.status}` *)
ChatStatusMessage(status) ==
  CASE status = 500 -> "Chat request failed with status 500"
    [] OTHER -> "Chat request failed with status ?"

(* chat-api.ts requestChatReply, from the fetch on: what the awaited call  *)
(* yields for a raw outcome.                                               *)
requestChatReply(raw) ==
  IF raw.kind = "network" THEN ChatThrown("Failed to fetch")
  ELSE LET body == raw.body
           isObject == body.t = "object"
       IN IF ~raw.ok
          THEN IF isObject /\ HasString(body.fields, "error")
               THEN ChatThrown(body.fields.error)
               ELSE IF isObject /\ HasString(body.fields, "message")
                    THEN ChatThrown(body.fields.message)
                    ELSE ChatThrown(ChatStatusMessage(raw.status))
          ELSE IF body.t \in {"empty", "text"}
               THEN ChatThrown("Unexpected end of JSON input")
               ELSE IF ~isObject
                       \/ ~HasString(body.fields, "message")
                       \/ ~HasString(body.fields, "conversation_id")
                    THEN ChatThrown("Chat response was malformed.")
                    ELSE ChatReturned(body.fields)

(* lib/chat sendChatMessage: what the awaited call yields. *)
sendChatMessage(raw) ==
  IF raw.kind = "network" THEN ChatThrown("Failed to fetch")
  ELSE LET body == raw.body
           isObject == body.t = "object"
       IN IF ~raw.ok
          THEN IF isObject /\ "message" \in DOMAIN body.fields
               THEN ChatThrown(body.fields.message)
               ELSE ChatThrown(ChatStatusMessage(raw.status))
          ELSE IF ~isObject
               THEN ChatThrown("Chat service returned an unexpected response.")
               ELSE ChatReturned(body.fields)

(* A piece of the reply is a text of chunks; pieces.filter(Boolean) drops  *)
(* the pieces that are the empty string, join("\n\n") puts a blank line    *)
(* between those that remain.                                              *)
RECURSIVE JoinPieces(_)
JoinPieces(pieces) ==
  IF pieces = <<>> THEN <<>>
  ELSE IF pieces[1] = <<"">> THEN JoinPieces(Tail(pieces))
  ELSE LET rest == JoinPieces(Tail(pieces))
       IN IF rest = <<>> THEN pieces[1] ELSE pieces[1] \o <<"\n\n">> \o rest

(* list.join(", ") *)
RECURSIVE JoinComma(_)
JoinComma(list) ==
  IF list = <<>> THEN <<>>
  ELSE IF Len(list) = 1 THEN <<list[1]>>
  ELSE <<list[1], ", ">> \o JoinComma(Tail(list))

ConfirmationPiece(response) ==
  IF response.requires_confirmation
  THEN << <<"The agent needs your confirmation to finish this request.">> >> ELSE <<>>
SuggestionsPiece(response) ==
  IF response.suggestions # <<>>
  THEN << <<"Suggestions: ">> \o JoinComma(response.suggestions) >> ELSE <<>>
ActionsPiece(response) ==
  IF response.agent_actions # <<>>
  THEN << <<"Agent actions: ">> \o JoinComma(response.agent_actions) >> ELSE <<>>
ProblemPiece(response) ==
  IF ~response.success
  THEN << <<"The agent reported a problem while processing your request.">> >> ELSE <<>>

(* chatbot.tsx formatChatReply *)
formatChatReplyChatbot(response) ==
  JoinPieces(<< <<response.message>> >>
             \o ConfirmationPiece(response) \o SuggestionsPiece(response)
             \o ProblemPiece(response))

(* Variant: the problem notice is put before the suggestions list. *)
formatChatReplyLibProblemFirst(response) ==
  LET mainMessage == IF response.message # Null /\ response.message \notin {"", " "}
                     THEN response.message
                     ELSE "The agent did not return any message."
  IN JoinPieces(<< <<mainMessage>> >> \o ConfirmationPiece(response)
                \o ProblemPiece(response) \o SuggestionsPiece(response)
                \o ActionsPiece(response))

(* lib/chat formatChatReply *)
formatChatReplyLib(response) ==
  LET mainMessage == IF response.message # Null /\ response.message \notin {"", " "}
                     THEN response.message
                     ELSE "The agent did not return any message."
  IN JoinPieces(<< <<mainMessage>> >> \o ConfirmationPiece(response)
                \o SuggestionsPiece(response) \o ActionsPiece(response)
                \o ProblemPiece(response))

formatChatReply(kind, response) ==
  IF kind = "Chatbot" THEN formatChatReplyChatbot(response) ELSE formatChatReplyLib(response)

Greeting(kind) ==
  IF kind = "Chatbot" THEN <<"Hello! How can I help today?">>
  ELSE <<"Hi! Ask me anything about your schedule.">>

Msg(sender, text) == [sender |-> sender, text |-> text]

(* The request body: conversation_id (Null: not in the body) only when the *)
(* token is truthy.                                                        *)
RequestBody(text, conv) ==
  [message |-> text, user_id |-> "uid",
   conversation_id |-> IF conv # Null /\ conv # "" THEN conv ELSE Null]

(* One accepted handleSend call.  pc: "token" (awaiting getIdToken),       *)
(* "fetch" (request issued, awaiting the response), "done".  body is the   *)
(* request body built from the text and the conversationId the call closed *)
(* over; got is the conversation_id of a successful reply.                 *)
(* authorization: whether the request carries the Authorization header,   *)
(* which requestChatReply sets once getIdToken() has resolved.             *)
NewCall(text, conv, pc) ==
  [body |-> RequestBody(text, conv), pc |-> pc, sent |-> pc = "fetch", outcome |-> "none",
   got |-> Null, authorization |-> FALSE]

(* Date.now() at the first render, in milliseconds counted from an origin  *)
(* late enough to keep it above 1, the greeting's id.                      *)
FirstInstant == 1000

(* Date.now() *)
Date_now == clock

(* The greeting's id; ChatWidget's messages carry no id. *)
InitialIds == IF chatKind = "Chatbot" THEN <<1>> ELSE <<>>

(* The ids after appending { id: Date.now(), ... } *)
NewIds == IF chatKind = "Chatbot" THEN Append(ids, Date_now) ELSE ids

InitChat ==
  /\ chatKind \in ChatKinds
  /\ signedIn \in BOOLEAN
  /\ clock = FirstInstant
  /\ messages = <<Msg("bot", Greeting(chatKind))>>
  /\ ids = InitialIds
  /\ input = <<>>
  /\ isSending = FALSE
  /\ conversationId = Null
  /\ calls = <<>>
  /\ lastCall = "none"

(* A millisecond passes. *)
Tick ==
  /\ clock < FirstInstant + MaxTicks
  /\ clock' = clock + 1
  /\ UNCHANGED <<chatKind, signedIn, messages, ids, input, isSending, conversationId, calls,
                 lastCall, loaderVars>>

(* onChange: setInput(e.target.value) *)
SetInput(text) ==
  /\ text # input
  /\ input' = text
  /\ lastCall' = "other"
  /\ UNCHANGED <<chatKind, signedIn, clock, messages, ids, isSending, conversationId, calls, loaderVars>>

(* requestChatReply awaits getIdToken() before the fetch when a user is    *)
(* signed in; sendChatMessage issues the fetch at once.                    *)
FirstPc == IF chatKind = "Chatbot" /\ signedIn THEN "token" ELSE "fetch"

(* Variant: the user message carries the text as typed, padding included. *)
HandleSendKeepsPadding ==
  LET text == trim(input)
  IN IF text = <<>> \/ isSending
     THEN /\ lastCall' = "rejected"
          /\ UNCHANGED <<messages, ids, input, isSending, conversationId, calls>>
     ELSE /\ Len(calls) < MaxSends
          /\ messages' = Append(messages, Msg("user", input))
          /\ ids' = NewIds
          /\ input' = <<>>
          /\ isSending' = TRUE
          /\ calls' = Append(calls, NewCall(text, conversationId, FirstPc))
          /\ lastCall' = "dispatched"
          /\ UNCHANGED conversationId

(* Variant: the guard tests the text only. *)
HandleSendIgnoresSending ==
  LET text == trim(input)
  IN IF text = <<>>
     THEN /\ lastCall' = "rejected"
          /\ UNCHANGED <<messages, ids, input, isSending, conversationId, calls>>
     ELSE /\ Len(calls) < MaxSends
          /\ messages' = Append(messages, Msg("user", text))
          /\ ids' = NewIds
          /\ input' = <<>>
          /\ isSending' = TRUE
          /\ calls' = Append(calls, NewCall(text, conversationId, FirstPc))
          /\ lastCall' = "dispatched"
          /\ UNCHANGED conversationId

(* Variant: the dispatch omits setIsSending(true). *)
HandleSendKeepsFlagDown ==
  LET text == trim(input)
  IN IF text = <<>> \/ isSending
     THEN /\ lastCall' = "rejected"
          /\ UNCHANGED <<messages, ids, input, isSending, conversationId, calls>>
     ELSE /\ Len(calls) < MaxSends
          /\ messages' = Append(messages, Msg("user", text))
          /\ ids' = NewIds
          /\ input' = <<>>
          /\ calls' = Append(calls, NewCall(text, conversationId, FirstPc))
          /\ lastCall' = "dispatched"
          /\ UNCHANGED <<isSending, conversationId>>

(* Variant: a rejected call clears the input box. *)
HandleSendRejectClearsInput ==
  LET text == trim(input)
  IN IF text = <<>> \/ isSending
     THEN /\ lastCall' = "rejected"
          /\ input' = <<>>
          /\ UNCHANGED <<messages, ids, isSending, conversationId, calls>>
     ELSE /\ Len(calls) < MaxSends
          /\ messages' = Append(messages, Msg("user", text))
          /\ ids' = NewIds
          /\ input' = <<>>
          /\ isSending' = TRUE
          /\ calls' = Append(calls, NewCall(text, conversationId, FirstPc))
          /\ lastCall' = "dispatched"
          /\ UNCHANGED conversationId

(* Variant: a rejected call resets the sending flag. *)
HandleSendRejectClearsFlag ==
  LET text == trim(input)
  IN IF text = <<>> \/ isSending
     THEN /\ lastCall' = "rejected"
          /\ isSending' = FALSE
          /\ UNCHANGED <<messages, ids, input, conversationId, calls>>
     ELSE /\ Len(calls) < MaxSends
          /\ messages' = Append(messages, Msg("user", text))
          /\ ids' = NewIds
          /\ input' = <<>>
          /\ isSending' = TRUE
          /\ calls' = Append(calls, NewCall(text, conversationId, FirstPc))
          /\ lastCall' = "dispatched"
          /\ UNCHANGED conversationId

(* handleSend up to its first await. *)
HandleSendBody ==
  LET text == trim(input)
  IN IF text = <<>> \/ isSending
     THEN /\ lastCall' = "rejected"
          /\ UNCHANGED <<messages, ids, input, isSending, conversationId, calls>>
     ELSE /\ Len(calls) < MaxSends
          /\ messages' = Append(messages, Msg("user", text))
          /\ ids' = NewIds
          /\ input' = <<>>
          /\ isSending' = TRUE
          /\ calls' = Append(calls, NewCall(text, conversationId, FirstPc))
          /\ lastCall' = "dispatched"
          /\ UNCHANGED conversationId

HandleSend ==
  /\ HandleSendBody
  /\ UNCHANGED <<chatKind, signedIn, clock, loaderVars>>

(* catch: append `Error: ${message}`; finally: setIsSending(false) *)
(* Variant: a failure that takes the optimistic user message back. *)
FailureDropsUserMessage(i, message) ==
  /\ messages' = Append(SubSeq(messages, 1, Len(messages) - 1),
                        Msg("bot", <<"Error: ", message>>))
  /\ ids' = (IF chatKind = "Chatbot" THEN Append(SubSeq(ids, 1, Len(ids) - 1), Date_now) ELSE ids)
  /\ isSending' = FALSE
  /\ calls' = [calls EXCEPT ![i].pc = "done", ![i].outcome = "failure"]
  /\ lastCall' = "failure"
  /\ UNCHANGED conversationId

(* Variant: a failure that skips the finally block. *)
FailureLeavesFlagUp(i, message) ==
  /\ messages' = Append(messages, Msg("bot", <<"Error: ", message>>))
  /\ ids' = NewIds
  /\ calls' = [calls EXCEPT ![i].pc = "done", ![i].outcome = "failure"]
  /\ lastCall' = "failure"
  /\ UNCHANGED <<conversationId, isSending>>

(* Variant: a failure that forgets the continuity token. *)
FailureClearsToken(i, message) ==
  /\ messages' = Append(messages, Msg("bot", <<"Error: ", message>>))
  /\ ids' = NewIds
  /\ isSending' = FALSE
  /\ calls' = [calls EXCEPT ![i].pc = "done", ![i].outcome = "failure"]
  /\ lastCall' = "failure"
  /\ conversationId' = Null

(* catch and finally of handleSend. *)
Failure(i, message) ==
  /\ messages' = Append(messages, Msg("bot", <<"Error: ", message>>))
  /\ ids' = NewIds
  /\ isSending' = FALSE
  /\ calls' = [calls EXCEPT ![i].pc = "done", ![i].outcome = "failure"]
  /\ lastCall' = "failure"
  /\ UNCHANGED conversationId

(* Chatbot: setConversationId(response.conversation_id); ChatWidget: only  *)
(* when response.conversation_id is truthy.                                *)
(* Variant: the first token is kept for the whole conversation. *)
StoredTokenKeepsFirst(response) ==
  IF conversationId # Null THEN conversationId ELSE response.conversation_id

(* setConversationId on success. *)
StoredToken(response) ==
  IF chatKind = "Chatbot" THEN response.conversation_id
  ELSE IF response.conversation_id # Null THEN response.conversation_id ELSE conversationId

(* Variant: the reply takes the place of the user message it answers. *)
SuccessReplacesUserMessage(i, response) ==
  /\ conversationId' = StoredToken(response)
  /\ messages' = [messages EXCEPT ![Len(messages)] =
                                    Msg("bot", formatChatReply(chatKind, response))]
  /\ ids' = (IF chatKind = "Chatbot" THEN [ids EXCEPT ![Len(ids)] = Date_now] ELSE ids)
  /\ isSending' = FALSE
  /\ calls' = [calls EXCEPT ![i].pc = "done", ![i].outcome = "success",
                             ![i].got = response.conversation_id]
  /\ lastCall' = "success"

(* try: store the token, append the reply; finally: setIsSending(false) *)
Success(i, response) ==
  /\ conversationId' = StoredToken(response)
  /\ messages' = Append(messages, Msg("bot", formatChatReply(chatKind, response)))
  /\ ids' = NewIds
  /\ isSending' = FALSE
  /\ calls' = [calls EXCEPT ![i].pc = "done", ![i].outcome = "success",
                             ![i].got = response.conversation_id]
  /\ lastCall' = "success"

(* getIdToken() settles: the fetch is issued, or the rejection is caught.  *)
TokenSettles(i, ok) ==
  /\ i \in 1..Len(calls)
  /\ calls[i].pc = "token"
  /\ IF ok
     THEN /\ calls' = [calls EXCEPT ![i].pc = "fetch", ![i].sent = TRUE,
                                    ![i].authorization = TRUE]
          /\ lastCall' = "other"
          /\ UNCHANGED <<messages, ids, input, isSending, conversationId>>
     ELSE /\ Failure(i, "Firebase: token refresh failed")
          /\ UNCHANGED input
  /\ UNCHANGED <<chatKind, signedIn, clock, loaderVars>>

(* The chat endpoint's response arrives: the rest of handleSend runs. *)
ChatResolve(i, raw) ==
  /\ i \in 1..Len(calls)
  /\ calls[i].pc = "fetch"
  /\ LET response == IF chatKind = "Chatbot" THEN requestChatReply(raw)
                     ELSE sendChatMessage(raw)
     IN IF response.ok THEN Success(i, response) ELSE Failure(i, response.error)
  /\ UNCHANGED <<chatKind, signedIn, clock, input, loaderVars>>

Typing == \E text \in Inputs : SetInput(text)
TokenArrives == \E i \in 1..Len(calls) : \E ok \in BOOLEAN : TokenSettles(i, ok)
ChatResponseArrives == \E i \in 1..Len(calls) : \E raw \in RawChatResponses : ChatResolve(i, raw)

NextChat ==
  \/ Typing
  \/ HandleSend
  \/ TokenArrives
  \/ ChatResponseArrives

(***************************************************************************)
(* Reply formatting: every shape of successful reply, delivered to a send  *)
(* that is in flight.                                                      *)
(***************************************************************************)
Absent(v) == [has |-> FALSE, v |-> v]
Present(v) == [has |-> TRUE, v |-> v]
OptField(name, o) == IF o.has THEN name :> o.v ELSE EmptyMap

ReplyTexts == {Absent(""), Present(""), Present(" "), Present("Done")}
ReplyFlags == {Absent(FALSE), Present(TRUE), Present(FALSE)}
ReplySuggestions == { <<>>, <<"Tomorrow 3pm">>, <<"Tomorrow 3pm", "Friday 10am">> }
ReplyActions == { <<>>, <<"create_event">> }

(* 2xx JSON bodies of POST /api/chat/message. *)
ReplyBodies ==
  { ObjectBody(OptField("message", m) @@ OptField("success", ok)
               @@ ("conversation_id" :> "abc123") @@ ("requires_confirmation" :> c)
               @@ ("suggestions" :> g) @@ ("agent_actions" :> a)) :
      m \in ReplyTexts, ok \in ReplyFlags, c \in BOOLEAN,
      g \in ReplySuggestions, a \in ReplyActions }

FormatReplies == { HttpResponse(TRUE, 200, b) : b \in ReplyBodies }

(* The controller after the user has sent "a": the request is outbound. *)
InitSent ==
  /\ chatKind \in ChatKinds
  /\ signedIn \in BOOLEAN
  /\ clock = FirstInstant
  /\ messages = <<Msg("bot", Greeting(chatKind)), Msg("user", <<"a">>)>>
  /\ ids = (IF chatKind = "Chatbot" THEN Append(InitialIds, Date_now) ELSE InitialIds)
  /\ input = <<>>
  /\ isSending = TRUE
  /\ conversationId = Null
  /\ calls = <<[NewCall(<<"a">>, Null, "fetch")
                 EXCEPT !.authorization = (chatKind = "Chatbot" /\ signedIn)]>>
  /\ lastCall = IF FirstPc = "token" THEN "other" ELSE "dispatched"

ReplyArrives == \E raw \in FormatReplies : ChatResolve(1, raw)

(***************************************************************************)
(* Range loader: what the consumer shows for its error state.              *)
(***************************************************************************)
(* /not authenticated/i.test(error), over the messages a load can produce. *)
MentionsNotAuthenticated(message) ==
  message \in {"Not authenticated with Google"}

(* CalendarPage authHelp *)
authHelp ==
  IF error # Null /\ MentionsNotAuthenticated(error)
  THEN <<"Connect your Google account from Settings to view your calendar.">>
  ELSE Null

(* CalendarPage: {(error || authHelp) && (authHelp ?? `Error loading       *)
(* events: ${error}`)}; HomeDashboard's cards: loading ? ... : error ?     *)
(* <p>{error}</p> : ...                                                    *)
ErrorBanner ==
  IF consumer = "CalendarPage"
  THEN IF error = Null THEN Null
       ELSE IF authHelp # Null THEN authHelp ELSE <<"Error loading events: ", error>>
  ELSE IF isLoading \/ error = Null THEN Null ELSE <<error>>

(***************************************************************************)
(* Month grid.                                                             *)
(***************************************************************************)
GridLength == 42

(* Calendar.tsx: gridStart and days, the two memos. *)
gridStart == startOfWeek(startOfMonth(viewDate), weekStartsOn)
days == [i \in 1..GridLength |-> addDays(gridStart, i - 1)]

(* Calendar.tsx days.map(day => ...): what each grid cell is rendered from. *)
dayCells ==
  [i \in 1..GridLength |->
     LET day == days[i]
     IN [date |-> day,
         label |-> getDate(day),
         inMonth |-> isSameMonth(day, viewDate),
         isToday |-> isSameDay(day, today),
         hasEvents |-> ymd(day) \in DOMAIN eventsByDay]]

(* Variant: cells that light up on the day of the month alone. *)
buildMonthMatrixByLabel(current, byDay) ==
  LET first == MakeDate(getFullYear(current), getMonth(current), 1, 0)
      startDate == setDate(first, getDate(first) - getDay(first))
  IN [i \in 1..GridLength |->
        LET day == setHours0(setDate(startDate, getDate(startDate) + (i - 1)))
        IN [date |-> day,
            label |-> getDate(day),
            inMonth |-> getMonth(day) = getMonth(current),
            isToday |-> getDate(day) = getDate(setHours0(now)),
            hasEvents |-> toLocalKey(day) \in DOMAIN byDay]]

(* home.tsx buildMonthMatrix *)
buildMonthMatrix(current, byDay) ==
  LET first == MakeDate(getFullYear(current), getMonth(current), 1, 0)
      startDate == setDate(first, getDate(first) - getDay(first))
  IN [i \in 1..GridLength |->
        LET day == setHours0(setDate(startDate, getDate(startDate) + (i - 1)))
        IN [date |-> day,
            label |-> getDate(day),
            inMonth |-> getMonth(day) = getMonth(current),
            isToday |-> getTime(day) = getTime(setHours0(now)),
            hasEvents |-> toLocalKey(day) \in DOMAIN byDay]]

(* HomeDashboard's monthCells: empty until the effects have run, then what *)
(* the effect on [eventsByDay, viewDate, selectedDate] last stored.        *)
monthCells == IF phase = "fresh" THEN <<>> ELSE buildMonthMatrix(viewDate, eventsByDay)

(* The instants at which the grid is examined: one in every month of three *)
(* years, 2024 a leap year, at varying days and hours.                     *)
MonthsExamined == 36
Instants == { MakeDate(2023, m, 1 + ((7 * m) % 28), m % 24) : m \in 0..(MonthsExamined - 1) }

(* The component first rendered at any of these instants, CalendarPage     *)
(* with either weekStartsOn.                                               *)
InitGrid == InitLoaderAt(Instants, {0, 1}) /\ utcOffset = 0

(***************************************************************************)
(* Day selection.                                                          *)
(***************************************************************************)
(* Calendar.tsx selectedKey; HomeDashboard keeps the key itself. *)
selectedKey == IF consumer = "CalendarPage" THEN ymd(selectedDate) ELSE selectedDate

(* eventsByDay.get(selectedKey) ?? [] *)
selectedEvents ==
  IF selectedKey \in DOMAIN eventsByDay THEN eventsByDay[selectedKey] ELSE <<>>

(* The isSelected flag of a grid cell's day under the selection selected:  *)
(* isSameDay(day, selectedDate) in CalendarPage, key === selectedIso in    *)
(* buildMonthMatrix.                                                       *)
isSelected(day, selected) ==
  IF consumer = "CalendarPage" THEN isSameDay(day, selected)
  ELSE toLocalKey(day) = selected

(* The days a day key of the session can stand for: those within KeySpan   *)
(* days of today.                                                          *)
KeySpan == 70
KeyDays == { DateAt(getTime(today) + 24 * k) : k \in -KeySpan..KeySpan }

(* new Date("YYYY-MM-DD"): a date-only text is read as midnight UTC of     *)
(* that day, which on the local clock is utcOffset hours after the day's   *)
(* local midnight.  Any other text gives Invalid Date.                     *)
parseDateOnly(text) ==
  LET named == { d \in KeyDays : toLocalKey(d) = text }
  IN IF named = {} THEN InvalidDate
     ELSE DateAt(getTime(CHOOSE d \in named : TRUE) + utcOffset)

WeekdayNames ==
  <<"Sunday", "Monday", "Tuesday", "Wednesday", "Thursday", "Friday", "Saturday">>
MonthNames ==
  <<"Jan", "Feb", "Mar", "Apr", "May", "Jun", "Jul", "Aug", "Sep", "Oct", "Nov", "Dec">>

(* toLocaleDateString(undefined, { weekday: "long", month: "short", day:   *)
(* "numeric" }): the local weekday, month and day of the month.            *)
toLocaleDateString(d) ==
  IF d.valid
  THEN WeekdayNames[getDay(d) + 1] \o ", " \o MonthNames[getMonth(d) + 1]
         \o " " \o ToString(getDate(d))
  ELSE "Invalid Date"

(* MiniCalendarCard's selectedLabel *)
selectedLabel == toLocaleDateString(parseDateOnly(selectedDate))

(* The time zones examined: US Pacific, UTC, Japan. *)
Zones == {-8, 0, 9}

(* The grid cells the user clicks: the first (a day of the previous month  *)
(* unless the month starts the week), one in the third week, the last (a   *)
(* day of the next month).                                                 *)
ClickedCells == {1, 15, GridLength}

(* Whether the grid buttons are on screen: MiniCalendarCard renders the    *)
(* grid only when neither loading nor error is set.                        *)
GridClickable ==
  /\ phase = "mounted"
  /\ consumer = "HomeDashboard" => (~isLoading /\ error = Null)

(* The day grid cell i is rendered from: days.map(day => ...) in           *)
(* CalendarPage, grid.map(cell => ...) over monthCells in HomeDashboard.   *)
cellDay(i) == IF consumer = "CalendarPage" THEN days[i] ELSE monthCells[i].date

(* home.tsx handleSelect *)
handleSelect(date) == toLocalKey(setHours0(date))

(* Variant: a selection that re-runs the load effect, as if selectedDate    *)
(* were one of its dependencies.                                           *)
SelectDayReloads(i) ==
  /\ GridClickable
  /\ Loads(externalEvents) => Len(requests) < MaxRequests
  /\ LET day == cellDay(i)
     IN selectedDate' = (IF consumer = "CalendarPage" THEN day ELSE handleSelect(day))
  /\ LoadEffect(Cleanup(requests, controller), externalEvents, viewDate)
  /\ UNCHANGED <<consumer, now, utcOffset, weekStartsOn, phase, viewDate, externalEvents, events,
                 eventsByDay, chatVars>>

(* A click on grid cell i: setSelectedDate(day) in CalendarPage,           *)
(* handleSelect(cell.date) in HomeDashboard.  selectedDate is no           *)
(* dependency of the load effect.                                          *)
SelectDay(i) ==
  /\ GridClickable
  /\ LET day == cellDay(i)
     IN selectedDate' = (IF consumer = "CalendarPage" THEN day ELSE handleSelect(day))
  /\ UNCHANGED <<consumer, now, utcOffset, weekStartsOn, phase, viewDate, externalEvents, events,
                 eventsByDay, isLoading, error, requests, query, controller, delivered, chatVars>>

DaySelected == \E i \in ClickedCells : SelectDay(i)

(***************************************************************************)
(* Range loader: properties.                                               *)
(***************************************************************************)
Requests == 1..Len(requests)
InFlight == {r \in Requests : requests[r].pending}
Uncancelled == {r \in InFlight : ~requests[r].aborted}
LoaderState == <<events, eventsByDay, error, isLoading>>

(* What the loader shows once the fetch result res has been applied. *)
ShowsResult(res) ==
  IF res.ok
  THEN /\ error = Null
       /\ IF consumer = "CalendarPage"
          THEN /\ \E rnd \in RndChoices(res.data) : events = NormalizeCal(res.data, rnd)
               /\ eventsByDay = IndexCal(events)
          ELSE /\ events = FormatAll(Slice(SortByStart(res.data), EVENTS_LIMIT))
               /\ eventsByDay = IndexHome(SortByStart(res.data))
  ELSE /\ error = res.message
       /\ events = <<>>
       /\ eventsByDay = EmptyMap

(* C1: a step in which a cancelled request resolves, with a success or an  *)
(* error, changes none of the event collection, the event index, the error *)
(* and the loading flag.                                                   *)
C1_CancelledResolutionDiscarded ==
  [][\A r \in Requests :
       (requests[r].aborted /\ requests[r].pending /\ ~requests'[r].pending)
         => UNCHANGED LoaderState]_vars

(* C2: once the most recently issued request has resolved and is still the *)
(* current one, the events and the error shown are those its response      *)
(* produced, whatever other responses have arrived before or after it.     *)
C2_LatestRequestWins ==
  (phase = "mounted" /\ controller # 0 /\ delivered.state = "settled")
    => ShowsResult(delivered)

(* C3: every request but the most recently issued one has had its signal   *)
(* aborted, so at most one uncancelled request is in flight.               *)
C3_PreviousAbortedFirst ==
  /\ \A r \in Requests : r < Len(requests) => requests[r].aborted
  /\ Cardinality(Uncancelled) <= 1

C3_Witness ==
  /\ Len(requests) >= 2
  /\ Cardinality(InFlight) >= 2
  /\ Cardinality(Uncancelled) = 1

(* C4: while the loader owns the collection and no load is pending, a set  *)
(* error implies an empty event collection and an empty event index.       *)
C4_ErrorExcludesEvents ==
  (phase = "mounted" /\ ~externalEvents.defined /\ Uncancelled = {} /\ ~isLoading
     /\ error # Null)
    => (events = <<>> /\ eventsByDay = EmptyMap)

(* The request of the current run of the load effect is still unresolved. *)
CurrentPending == controller # 0 /\ requests[controller].pending

(* C16: while the most recently issued range request has not resolved the  *)
(* loading flag is true, and the flag goes from true to false only in a    *)
(* step in which that request resolves.                                    *)
C16_LoadingWhilePending ==
  [][/\ CurrentPending => isLoading
     /\ CurrentPending' => isLoading'
     /\ (isLoading /\ ~isLoading')
          => (CurrentPending /\ controller' = controller
              /\ ~requests'[controller].pending)]_vars

C16_Witness ==
  /\ Len(requests) = 3
  /\ ~requests[1].pending
  /\ requests[2].pending
  /\ controller = 3
  /\ ~requests[3].pending
  /\ ~isLoading

(* A navigation change: prevMonth, nextMonth, changeMonth or goToday. *)
Navigation == PrevMonth \/ NextMonth \/ GoToday

(* C17: every navigation change of an active loader enters Loading: the    *)
(* loading flag is true and the error is cleared afterwards, one new       *)
(* request has been issued and is the current one, and every request       *)
(* issued before it is cancelled.                                          *)
C17_NavigationReloads ==
  [][(Navigation /\ Loads(externalEvents))
       => /\ isLoading'
          /\ error' = Null
          /\ Len(requests') = Len(requests) + 1
          /\ controller' = Len(requests')
          /\ requests'[controller'].pending /\ ~requests'[controller'].aborted
          /\ \A r \in Requests : requests'[r].aborted]_vars

C17_Witness ==
  /\ consumer = "CalendarPage"
  /\ Len(requests) = 3
  /\ ~requests[1].pending
  /\ requests[2].pending /\ requests[2].aborted
  /\ controller = 3 /\ requests[3].pending
  /\ viewDate = startOfMonth(today)
  /\ isLoading
  /\ error = Null

(* The failure message of a response with which the backend says that the *)
(* calendar identity is not linked.                                        *)
NotLinkedMessage == "Not authenticated with Google"
ReconnectGuidance == <<"Connect your Google account from Settings to view your calendar.">>

(* C18: once a load has failed, a not-linked failure shows the reconnect   *)
(* guidance and any other failure shows an error text that is not the      *)
(* guidance, in CalendarPage and in HomeDashboard.                         *)
C18_NotLinkedIsDistinct ==
  (phase = "mounted" /\ ~isLoading /\ error # Null)
    => IF error = NotLinkedMessage
       THEN ErrorBanner = ReconnectGuidance
       ELSE ErrorBanner # Null /\ ErrorBanner # ReconnectGuidance

Calls == 1..Len(calls)
Running == {i \in Calls : calls[i].pc # "done"}
Outbound == {i \in Calls : calls[i].pc = "fetch"}
Sent == {i \in Calls : calls[i].sent}
ChatFrame == <<messages, input, conversationId, isSending, calls>>

(* C5: at most one chat request is in flight, and at most one handleSend   *)
(* call is running; a call made while one is running adds no request.      *)
C5_SingleFlight ==
  /\ Cardinality(Outbound) <= 1
  /\ Cardinality(Running) <= 1

C5_Witness ==
  /\ lastCall = "rejected"
  /\ trim(input) # <<>>
  /\ Cardinality(Outbound) = 1
  /\ Cardinality(Sent) = 1

(* C6: a handleSend call is rejected exactly when the trimmed text is      *)
(* empty or sending is true, and a rejected call changes none of history,  *)
(* input, token, sending flag and issued requests.                         *)
C6_RejectedSendIsNoOp ==
  [][/\ lastCall' = "rejected" => UNCHANGED ChatFrame
     /\ (lastCall' = "rejected" /\ lastCall # "rejected") => (trim(input) = <<>> \/ isSending)
     /\ Len(calls') > Len(calls) => (trim(input) # <<>> /\ ~isSending)]_vars

C6_Witness ==
  /\ lastCall = "rejected"
  /\ isSending
  /\ input = <<" ", "a", " ">>

(* C7: from dispatch until the reply or failure message of the call is     *)
(* appended, sending is true.                                              *)
C7_SendingWhileRunning ==
  Running # {} => isSending

C7_Witness ==
  \E i \in Calls : calls[i].pc = "fetch" /\ calls[i].sent /\ isSending /\ i > 1

(* C8: when every awaited call eventually settles, sending always returns  *)
(* to false.                                                               *)
C8_SendingTerminates ==
  isSending ~> ~isSending

C8_Witness ==
  /\ ~isSending
  /\ \E i \in Calls : calls[i].outcome = "failure" /\ ~calls[i].sent
  /\ \E i \in Calls : calls[i].outcome = "failure" /\ calls[i].sent
  /\ \E i \in Calls : calls[i].outcome = "success"

(* C9 as stated: after a success, a failure or a rejection the flag is     *)
(* false.                                                                  *)
C9_FlagFalseAfterEveryOutcome ==
  lastCall \in {"success", "failure", "rejected"} => ~isSending

(* C9 amended: after a success or a failure the flag is false; a rejection *)
(* leaves the flag as it was, false when the controller is idle and true   *)
(* when a send is in flight.                                               *)
C9_FlagAfterOutcome ==
  [][/\ lastCall' \in {"success", "failure"} => ~isSending'
     /\ lastCall' = "rejected" => (isSending' = isSending /\ isSending' = (Running' # {}))]_vars

C9_Witness ==
  /\ lastCall = "rejected"
  /\ isSending
  /\ \E i \in Calls : calls[i].outcome = "success"
  /\ \E i \in Calls : calls[i].outcome = "failure"

(* The token returned by the most recent successful reply among the first  *)
(* n calls that carried one, Null when there is none.                      *)
RECURSIVE LastReturnedToken(_)
LastReturnedToken(n) ==
  IF n = 0 THEN Null
  ELSE IF calls[n].outcome = "success" /\ calls[n].got # Null THEN calls[n].got
  ELSE LastReturnedToken(n - 1)

(* C10: the first request carries no conversation_id; every later request  *)
(* carries the conversation_id of the most recent successful reply.        *)
C10_TokenEchoed ==
  \A i \in Calls :
    calls[i].body.conversation_id = LastReturnedToken(i - 1)

C10_Witness ==
  /\ Len(calls) = 3
  /\ calls[1].got = "abc123"
  /\ calls[2].body.conversation_id = "abc123" /\ calls[2].got = "xyz789"
  /\ calls[3].body.conversation_id = "xyz789" /\ calls[3].sent

(* 2xx replies that carry a reply text and no conversation_id. *)
NoTokenReplies ==
  {raw \in RawChatResponses :
     /\ raw.kind = "http" /\ raw.ok /\ raw.body.t = "object"
     /\ "message" \in DOMAIN raw.body.fields
     /\ "conversation_id" \notin DOMAIN raw.body.fields}

(* C11: a step in which a 2xx reply with a reply text and no               *)
(* conversation_id settles a call is a success: the formatted reply is     *)
(* appended as the assistant message, no error message is produced, and    *)
(* the stored continuity token is left as it was.                          *)
C11_ReplyWithoutTokenIsSuccess ==
  [][\A i \in Calls : \A raw \in NoTokenReplies :
       ChatResolve(i, raw) =>
         /\ lastCall' = "success"
         /\ messages' = Append(messages, Msg("bot", formatChatReply(chatKind, ChatReturned(raw.body.fields))))
         /\ conversationId' = conversationId]_vars

(* Outcomes that are failures of the chat request: a network error, a     *)
(* non-2xx response, a 2xx body that is no object or lacks the reply text. *)
FailingReplies ==
  {raw \in RawChatResponses :
     \/ raw.kind = "network"
     \/ ~raw.ok
     \/ raw.body.t # "object"
     \/ "message" \notin DOMAIN raw.body.fields}

(* The step appended exactly one assistant message made of the error       *)
(* marker and a non-empty reason.                                          *)
AppendsOneError ==
  /\ Len(messages') = Len(messages) + 1
  /\ SubSeq(messages', 1, Len(messages)) = messages
  /\ LET m == messages'[Len(messages')]
     IN /\ m.sender = "bot"
        /\ Len(m.text) = 2
        /\ m.text[1] = "Error: "
        /\ m.text[2] # ""

(* C12: a step in which a chat request fails (network error, non-2xx      *)
(* response, reply field missing, or the request could not be built)       *)
(* appends exactly one assistant message that begins with the error marker *)
(* and carries a non-empty reason, and the call ends as a handled failure. *)
C12_FailureAppendsOneError ==
  [][\A i \in Calls :
       /\ \A raw \in FailingReplies :
            ChatResolve(i, raw) => (AppendsOneError /\ calls'[i].outcome = "failure")
       /\ TokenSettles(i, FALSE) => (AppendsOneError /\ calls'[i].outcome = "failure")]_vars

(* C13: the history is append-only: every step keeps the existing         *)
(* messages in place and order; the step in which a call fails finds that  *)
(* call's user message at the end of the history and appends the error     *)
(* message after it.                                                       *)
C13_HistoryAppendOnly ==
  [][/\ Len(messages') >= Len(messages)
     /\ SubSeq(messages', 1, Len(messages)) = messages
     /\ \A i \in Calls :
          (calls[i].pc # "done" /\ calls'[i].outcome = "failure")
            => /\ messages[Len(messages)] = Msg("user", calls[i].body.message)
               /\ Len(messages') = Len(messages) + 1
               /\ messages'[Len(messages')].sender = "bot"
               /\ messages'[Len(messages')].text[1] = "Error: "]_vars

C13_Witness ==
  /\ Len(calls) >= 2
  /\ calls[1].outcome = "success"
  /\ calls[2].outcome = "failure"
  /\ Len(messages) = 5
  /\ messages[4] = Msg("user", calls[2].body.message)
  /\ messages[5].text[1] = "Error: "

(* C14: the step that accepts a send appends exactly one user message     *)
(* carrying the trimmed text to the end of the history, clears the input   *)
(* and sets sending to true, while the new call has no outcome yet.        *)
C14_DispatchIsOptimistic ==
  [][Len(calls') > Len(calls)
       => /\ messages' = Append(messages, Msg("user", trim(input)))
          /\ trim(input) # <<>>
          /\ input' = <<>>
          /\ isSending'
          /\ Len(calls') = Len(calls) + 1
          /\ calls'[Len(calls')].outcome = "none"
          /\ calls'[Len(calls')].body.message = trim(input)]_vars

C14_Witness ==
  /\ lastCall = "dispatched"
  /\ Len(calls) = 2
  /\ calls[2].outcome = "none"
  /\ messages[Len(messages)] = Msg("user", <<"a">>)
  /\ input = <<>>
  /\ isSending

(* The text a reply body f is to be shown as: pieces in order, a blank     *)
(* line between them, an empty piece contributing nothing.                 *)
Notice(cond, piece) == IF cond THEN <<piece>> ELSE <<>>
FlagSet(f, name) == name \in DOMAIN f /\ f[name] = TRUE
ReplyPiece(f) == << <<f.message>> >>
ConfirmationNotice(f) ==
  Notice(FlagSet(f, "requires_confirmation"),
         <<"The agent needs your confirmation to finish this request.">>)
SuggestionsList(f) ==
  Notice(f.suggestions # <<>>, <<"Suggestions: ">> \o JoinComma(f.suggestions))
ActionsList(f) ==
  Notice(f.agent_actions # <<>>, <<"Agent actions: ">> \o JoinComma(f.agent_actions))
ProblemNotice(f) ==
  Notice(~FlagSet(f, "success"),
         <<"The agent reported a problem while processing your request.">>)
Blank(f) == "message" \notin DOMAIN f \/ f.message \in {"", " "}
LastText(msgs) == msgs[Len(msgs)].text

C20_BearerWhenSignedIn ==
  signedIn
    => /\ \A r \in Requests : requests[r].authorization
       /\ \A i \in Sent : calls[i].authorization

(***************************************************************************)
(* Month grid and event index: properties.                                 *)
(***************************************************************************)
(* The grid on screen: CalendarPage's cells, or HomeDashboard's monthCells *)
(* once its effects have run.                                              *)
Cells == IF consumer = "CalendarPage" THEN dayCells ELSE monthCells
GridShown == consumer = "CalendarPage" \/ phase # "fresh"

FirstOfMonth == MakeDate(getFullYear(viewDate), getMonth(viewDate), 1, 0)
DaysBefore(d, n) == DateAt(getTime(d) - 24 * n)
Anchor ==
  IF weekStartsOn = 1
  THEN DaysBefore(FirstOfMonth, (getDay(FirstOfMonth) + 6) % 7)
  ELSE DaysBefore(FirstOfMonth, getDay(FirstOfMonth))

(* C21: the month grid is 42 consecutive days, the first of them           *)
(* firstOfMonth - ((weekday(firstOfMonth) + 6) mod 7) days when weeks      *)
(* start on Monday and firstOfMonth - weekday(firstOfMonth) days when they *)
(* start on Sunday; that day is a Monday, respectively a Sunday.           *)
C21_GridFromAnchor ==
  GridShown =>
    /\ Len(Cells) = 42
    /\ \A i \in 1..42 : Cells[i].date = DaysBefore(Anchor, 1 - i)
    /\ getDay(Cells[1].date) = weekStartsOn

(* A Monday-start grid of a month that begins on a Sunday, reached by      *)
(* navigation: its first cell lies six days back, in the month before.     *)
C21_Witness ==
  /\ consumer = "CalendarPage"
  /\ weekStartsOn = 1
  /\ MonthsFromToday(viewDate) # 0
  /\ getDay(FirstOfMonth) = 0
  /\ Cells[1].date = DaysBefore(FirstOfMonth, 6)
  /\ Cells[42].date = DaysBefore(FirstOfMonth, -35)

FirstOfNextMonth == MakeDate(getFullYear(viewDate), getMonth(viewDate) + 1, 1, 0)
InViewedMonth(d) == getTime(FirstOfMonth) <= getTime(d) /\ getTime(d) < getTime(FirstOfNextMonth)
DaysOfViewedMonth ==
  { DateAt(24 * n) : n \in (getTime(FirstOfMonth) \div 24)..((getTime(FirstOfNextMonth) \div 24) - 1) }

(* C22: every day of the viewed month is the date of some cell of the      *)
(* grid, and a cell is flagged as in the month exactly when its date lies  *)
(* from the first of the viewed month up to the first of the next.         *)
C22_GridCoversMonth ==
  GridShown =>
    LET dates == { Cells[i].date : i \in 1..Len(Cells) }
    IN /\ \A d \in DaysOfViewedMonth : d \in dates
       /\ \A i \in 1..Len(Cells) :
            LET cell == Cells[i] IN cell.inMonth <=> InViewedMonth(cell.date)

(* HomeDashboard showing a January reached by navigation: leading cells of *)
(* the December before, the 31 days, trailing cells of February.           *)
C22_Witness ==
  /\ consumer = "HomeDashboard"
  /\ phase = "mounted"
  /\ MonthsFromToday(viewDate) # 0
  /\ getMonth(viewDate) = 0
  /\ ~Cells[1].inMonth /\ getMonth(Cells[1].date) = 11
  /\ Cardinality({i \in 1..Len(Cells) : Cells[i].inMonth}) = 31
  /\ ~Cells[42].inMonth /\ getMonth(Cells[42].date) = 1

TodayInWindow ==
  getTime(Anchor) <= getTime(now) /\ getTime(now) < getTime(Anchor) + 24 * 42
TodayCells == { i \in 1..Len(Cells) : Cells[i].isToday }

(* C23: when the present instant lies within the 42 days of the grid,      *)
(* exactly one cell has isToday, the one of today's date; when it lies     *)
(* outside, no cell has.                                                   *)
C23_TodayFlaggedOnce ==
  GridShown =>
    LET flagged == TodayCells
    IN IF TodayInWindow
       THEN /\ Cardinality(flagged) = 1
            /\ \A i \in flagged : getTime(Cells[i].date) = 24 * (getTime(now) \div 24)
       ELSE flagged = {}

(* Another month than today's on screen with today among its leading or   *)
(* trailing cells, flagged there.                                          *)
C23_Witness ==
  /\ GridShown
  /\ phase = "mounted"
  /\ MonthsFromToday(viewDate) # 0
  /\ TodayInWindow
  /\ \E i \in TodayCells : ~Cells[i].inMonth

Occurrences(x, s) == Cardinality({ j \in 1..Len(s) : s[j] = x })

RECURSIVE OccurrencesIn(_, _, _)
OccurrencesIn(x, index, keys) ==
  IF keys = {} THEN 0
  ELSE LET k == CHOOSE key \in keys : TRUE
       IN Occurrences(x, index[k]) + OccurrencesIn(x, index, keys \ {k})

(* index holds every element of items once for each time it occurs in      *)
(* items, in non-empty buckets, and item i under keys[i] when starts[i] is *)
(* a date.                                                                 *)
IndexedExactly(index, items, starts, keys) ==
  /\ Len(items) = Len(starts)
  /\ \A k \in DOMAIN index : index[k] # <<>>
  /\ \A i \in 1..Len(items) :
       OccurrencesIn(items[i], index, DOMAIN index) = Occurrences(items[i], items)
  /\ \A k \in DOMAIN index : \A j \in 1..Len(index[k]) : Occurrences(index[k][j], items) > 0
  /\ \A i \in 1..Len(items) :
       toDate(starts[i]).valid =>
         /\ keys[i] \in DOMAIN index
         /\ Occurrences(items[i], index[keys[i]])
              = Cardinality({ j \in 1..Len(items) : items[j] = items[i] /\ keys[j] = keys[i] })

CalStarts(evs) == [i \in 1..Len(evs) |-> evs[i].start]
CalKeys(evs) == [i \in 1..Len(evs) |-> ymd(toDate(evs[i].start))]
HomeStarts(data) == [i \in 1..Len(data) |-> data[i].start_time]
HomeKeys(data) == [i \in 1..Len(data) |-> toLocalKey(toDate(data[i].start_time))]

(* C24: after every step that changes the event collection or the event   *)
(* index, the index holds each event of the collection it was built from   *)
(* (CalendarPage: events; HomeDashboard: the events of the response just   *)
(* applied) in exactly one bucket, the one of the DayKey of its start,     *)
(* nothing twice and nothing else.                                         *)
C24_IndexPartitionsEvents ==
  [][IF consumer = "CalendarPage"
     THEN (events' # events \/ eventsByDay' # eventsByDay)
            => IndexedExactly(eventsByDay', events', CalStarts(events'), CalKeys(events'))
     ELSE \A r \in { q \in 1..Len(requests) : requests'[q] # requests[q] } :
            \A raw \in { w \in RawCalendarResponses : fetchCalendarEvents(w).ok } :
              (phase # "unmounted" /\ Resolve(r, raw, <<>>))
                => LET data == fetchCalendarEvents(raw).data
                   IN IndexedExactly(eventsByDay', FormatAll(data), HomeStarts(data),
                                     HomeKeys(data))]_vars

(* An index of two days, one of them holding two events. *)
C24_Witness ==
  /\ phase = "mounted"
  /\ Len(events) = 3
  /\ DOMAIN eventsByDay = {"2024-03-10", "2024-03-11"}
  /\ Len(eventsByDay["2024-03-10"]) = 2
  /\ Len(eventsByDay["2024-03-11"]) = 1
  /\ \A i \in 1..2 : eventsByDay["2024-03-10"][i].title \in {"Review", "Lunch"}

(* Whether an entry of the index stems from an event whose start is no     *)
(* date: CalendarPage's entries keep the start, HomeDashboard's show it    *)
(* formatted.                                                              *)
MalformedStart(item) ==
  IF consumer = "CalendarPage" THEN ~toDate(item.start).valid ELSE item.when = "Invalid Date"

IndexEntries == { <<k, j>> \in (DOMAIN eventsByDay) \X (1..3) : j <= Len(eventsByDay[k]) }

(* C25: an event whose start does not parse as an instant is not in the    *)
(* event index: no bucket holds such an event and no bucket is keyed by    *)
(* the key of no date.                                                     *)
C25_MalformedStartExcluded ==
  /\ "NaN-NaN-NaN" \notin DOMAIN eventsByDay
  /\ \A e \in IndexEntries : ~MalformedStart(eventsByDay[e[1]][e[2]])

OkResponses == { w \in RawCalendarResponses : fetchCalendarEvents(w).ok }
Resolved == { q \in 1..Len(requests) : requests'[q] # requests[q] }

(* What crypto.randomUUID() could have returned instead of rnd, on the     *)
(* same platform.                                                          *)
OtherDraws(raw, rnd) ==
  { other \in Draws(raw) : \A i \in DOMAIN rnd : (other[i] = Null) <=> (rnd[i] = Null) }

(* C26: the ids given to the events of a response do not depend on a random *)
(* value: when CalendarPage applies a response, every other sequence of    *)
(* values crypto.randomUUID() could have returned yields the same events.  *)
C26_IdsAreDeterministic ==
  [][consumer = "CalendarPage" =>
       \A r \in Resolved : \A raw \in OkResponses : \A rnd \in Draws(raw) :
         (phase # "unmounted" /\ Resolve(r, raw, rnd))
           => \A other \in OtherDraws(raw, rnd) :
                NormalizeCal(fetchCalendarEvents(raw).data, other) = events']_vars

(* C27: the ids of the events of the collection are pairwise distinct.     *)
C27_IdsAreDistinct ==
  \A i, j \in 1..Len(events) : i # j => events[i].id # events[j].id

(* The DayKey function of the component, and the instants of the morning, *)
(* noon and last hour of the day a grid cell stands for.                   *)
DayKey(d) == IF consumer = "CalendarPage" THEN ymd(d) ELSE toLocalKey(d)
HoursOfDay == {0, 12, 23}
KeysOfDay(day) == { DayKey(DateAt(getTime(day) + h)) : h \in HoursOfDay }

(* C28: the instants of one local day have one DayKey, whatever the hour,  *)
(* and the 42 days of the grid have 42 different DayKeys, each of the form *)
(* YYYY-MM-DD.                                                             *)
C28_DayKeyIsTheLocalDay ==
  GridShown =>
    LET keys == [i \in 1..42 |-> KeysOfDay(Cells[i].date)]
    IN /\ \A i \in 1..42 : Cardinality(keys[i]) = 1
       /\ Cardinality(UNION { keys[i] : i \in 1..42 }) = 42
       /\ \A k \in UNION { keys[i] : i \in 1..42 } : Len(k) = 10
       /\ DayKey(now) \in KeysOfDay(today)

(* A grid that spans the turn of a year, with a one-digit month and day:   *)
(* the last hour of 31 December and the first of 1 January differ in key,  *)
(* the first and last hour of 1 January do not.                            *)
C28_Witness ==
  /\ GridShown
  /\ phase = "mounted"
  /\ getMonth(viewDate) = 0
  /\ \E y \in {2024, 2025} :
       /\ getFullYear(viewDate) = y
       /\ DayKey(DaysBefore(viewDate, 1)) # DayKey(viewDate)
       /\ DayKey(DateAt(getTime(viewDate) - 1)) = DayKey(DaysBefore(viewDate, 1))
       /\ DayKey(DateAt(getTime(viewDate) + 23)) = DayKey(viewDate)
       /\ DayKey(viewDate) = ToString(y) \o "-01-01"
       /\ \E i \in 1..42 : Cells[i].date = viewDate

(* C29: the range the current run of the load effect asked for is the span *)
(* of the grid on screen: it starts at the grid's first day and ends 42     *)
(* days later.                                                             *)
C29_RangeIsGridSpan ==
  query # NoQuery =>
    /\ query.start = Anchor
    /\ query.end = DaysBefore(Anchor, -42)

StartsAscend(a, b) ==
  (toDate(a).valid /\ toDate(b).valid) => getTime(toDate(a)) <= getTime(toDate(b))

(* Neighbours in a bucket of HomeDashboard's index stem from two events of *)
(* data of which the first does not start after the second.                *)
NeighboursAscend(index, data) ==
  \A k \in DOMAIN index : \A j \in 1..(Len(index[k]) - 1) :
    \E a, b \in 1..Len(data) :
      /\ a # b
      /\ formatEvent(data[a]) = index[k][j]
      /\ formatEvent(data[b]) = index[k][j + 1]
      /\ StartsAscend(data[a].start_time, data[b].start_time)

(* C30: after every step each bucket of the event index lists its events   *)
(* in ascending order of start time.                                       *)
C30_BucketsAscend ==
  [][IF consumer = "CalendarPage"
     THEN \A k \in DOMAIN eventsByDay' : \A j \in 1..(Len(eventsByDay'[k]) - 1) :
            StartsAscend(eventsByDay'[k][j].start, eventsByDay'[k][j + 1].start)
     ELSE \A r \in Resolved : \A raw \in OkResponses :
            (phase # "unmounted" /\ Resolve(r, raw, <<>>))
              => NeighboursAscend(eventsByDay', fetchCalendarEvents(raw).data)]_vars

(* C31: whenever the mounted calendar page's loading flag is true, the     *)
(* request of the current run of the load effect is in flight and not      *)
(* cancelled, so its resolution will clear the flag.                       *)
C31_LoadingHasLiveRequest ==
  (consumer = "CalendarPage" /\ phase = "mounted" /\ isLoading)
    => (CurrentPending /\ controller \in Uncancelled)

EventsOfCell(i) ==
  LET key == DayKey(cellDay(i))
  IN IF key \in DOMAIN eventsByDay THEN eventsByDay[key] ELSE <<>>

(* C33: a click on a grid cell changes the selected date and nothing else: *)
(* the viewed month, the event collection and index, the error, the        *)
(* loading flag and every request stay as they were; afterwards, in the    *)
(* grid of the unchanged viewed month, the clicked cell alone is flagged   *)
(* selected and the selected-day list is what the index holds for that     *)
(* cell's day.                                                             *)
C33_SelectChangesOnlySelection ==
  [][\A i \in ClickedCells :
       (selectedDate' # selectedDate /\ SelectDay(i)) =>
         /\ viewDate' = viewDate
         /\ events' = events /\ eventsByDay' = eventsByDay
         /\ error' = error /\ isLoading' = isLoading
         /\ requests' = requests /\ controller' = controller /\ query' = query
         /\ selectedKey' = DayKey(cellDay(i))
         /\ \A j \in 1..GridLength : isSelected(cellDay(j), selectedDate') <=> (j = i)
         /\ selectedEvents' = EventsOfCell(i)]_vars

(* CalendarPage, the first load still in flight, a day of an adjacent      *)
(* month selected.                                                         *)
C33_Witness ==
  /\ consumer = "CalendarPage"
  /\ phase = "mounted"
  /\ Len(requests) = 1 /\ controller = 1
  /\ requests[1].pending /\ ~requests[1].aborted
  /\ isLoading
  /\ ~isSameMonth(selectedDate, viewDate)

(* The months between the epoch's year 0 and d's month. *)
MonthIndex(d) == 12 * getFullYear(d) + getMonth(d)

(* C34: before and after every step the viewed date is the first day of a  *)
(* month at midnight; previous-month moves the view back by exactly one    *)
(* month, next-month forward by exactly one, go-to-today to the month of   *)
(* today; and after next-month, previous-month would restore the viewed    *)
(* date, and with it the first day of the grid.                            *)
C34_StepsByOneMonth ==
  [][/\ viewDate = startOfMonth(viewDate)
     /\ viewDate' = startOfMonth(viewDate')
     /\ PrevMonth => MonthIndex(viewDate') = MonthIndex(viewDate) - 1
     /\ NextMonth => /\ MonthIndex(viewDate') = MonthIndex(viewDate) + 1
                     /\ addMonths(viewDate', -1) = viewDate
                     /\ startOfWeek(startOfMonth(addMonths(viewDate', -1)), weekStartsOn)
                          = gridStart
     /\ GoToday => MonthIndex(viewDate') = MonthIndex(today)]_vars

(* The view moved back from a January to the December of the year before. *)
C34_Witness ==
  /\ phase = "mounted"
  /\ getMonth(today) = 0
  /\ getMonth(viewDate) = 11
  /\ getFullYear(viewDate) = getFullYear(today) - 1
  /\ Len(requests) = 2

(* The greeting followed by (user message, assistant message) pairs. *)
GreetingThenPairs(msgs) ==
  /\ Len(msgs) % 2 = 1
  /\ msgs[1] = Msg("bot", Greeting(chatKind))
  /\ \A k \in 2..Len(msgs) : msgs[k].sender = (IF k % 2 = 0 THEN "user" ELSE "bot")

(* C35: while the chat controller is idle the history is the greeting      *)
(* followed by (user message, assistant message) pairs; while it is        *)
(* sending, the history is such a sequence followed by one user message.   *)
C35_HistoryIsPaired ==
  IF isSending
  THEN /\ Len(messages) >= 2
       /\ messages[Len(messages)].sender = "user"
       /\ GreetingThenPairs(SubSeq(messages, 1, Len(messages) - 1))
  ELSE GreetingThenPairs(messages)

(* A second send in flight after a first exchange that failed. *)
C35_Witness ==
  /\ isSending
  /\ Len(messages) = 4
  /\ Len(calls) = 2
  /\ calls[1].outcome = "failure"

(* C36: a step in which a send fails leaves the continuity token as it     *)
(* was, and the request dispatched after a failed send carries the token   *)
(* of the most recent successful reply, none when there was no such reply. *)
C36_FailureKeepsToken ==
  [][/\ \A i \in Calls :
          (calls[i].outcome = "none" /\ calls'[i].outcome = "failure")
            => conversationId' = conversationId
     /\ (Len(calls') > Len(calls) /\ Len(calls) > 0 /\ calls[Len(calls)].outcome = "failure")
          => calls'[Len(calls')].body.conversation_id = LastReturnedToken(Len(calls))]_vars

(* A reply that returned a token, then a failed send, then a third request *)
(* that carries that token.                                                *)
C36_Witness ==
  /\ Len(calls) = 3
  /\ calls[1].outcome = "success" /\ calls[1].got = "xyz789"
  /\ calls[2].outcome = "failure"
  /\ calls[3].body.conversation_id = "xyz789"

(* C37: the messages of the chat page's history have pairwise distinct     *)
(* ids, whenever the sends and the responses happen.                       *)
C37_MessageIdsDistinct ==
  chatKind = "Chatbot" =>
    /\ Len(ids) = Len(messages)
    /\ \A i, j \in DOMAIN ids : i # j => ids[i] # ids[j]

(* C38: in the home dashboard the label shown for the selected day names   *)
(* the local calendar day that the selected day key stands for, whatever   *)
(* the time zone.                                                          *)
C38_LabelIsSelectedDay ==
  consumer = "HomeDashboard" =>
    \A d \in KeyDays :
      toLocalKey(d) = selectedDate => selectedLabel = toLocaleDateString(d)

(* The range loader, with the chat controller at rest. *)
Init == InitLoader /\ InitChat /\ chatKind = "Chatbot"

Next == NextLoader

Spec == Init /\ [][Next]_vars

(* The chat controller, with the range loader at rest. *)
ChatInit == InitLoader /\ InitChat /\ consumer = "HomeDashboard"

ChatSpec == ChatInit /\ [][NextChat]_vars

(* The chat controller when every awaited call eventually settles. *)
ChatLiveSpec ==
  ChatInit /\ [][NextChat]_vars /\ WF_vars(TokenArrives) /\ WF_vars(ChatResponseArrives)

(* One send in flight and the reply that settles it. *)
FormatInit == InitLoader /\ InitSent /\ consumer = "HomeDashboard"

FormatNext == ReplyArrives

FormatSpec == FormatInit /\ [][FormatNext]_vars

(* The month grid under navigation, from any of the examined instants. *)
GridInit == InitGrid /\ InitChat /\ chatKind = "Chatbot"
GridNext == Mount \/ PrevMonth \/ NextMonth \/ GoToday
GridSpec == GridInit /\ [][GridNext]_vars

(* The range loader with day selection: the first load, moves to the next  *)
(* month, responses and clicks on grid cells.                              *)
SelectNext ==
  \/ Mount
  \/ NextMonth
  \/ ResponseArrives
  \/ DaySelected
SelectSpec == Init /\ [][SelectNext]_vars

(* The chat page with its clock: sends, responses and passing milliseconds. *)
IdInit == ChatInit /\ chatKind = "Chatbot"
IdNext ==
  \/ Typing
  \/ HandleSend
  \/ TokenArrives
  \/ ChatResponseArrives
  \/ Tick
IdSpec == IdInit /\ [][IdNext]_vars

(* The home dashboard in any of the examined time zones, with day          *)
(* selection.                                                              *)
LabelInit ==
  /\ InitLoaderAt({PresentTime}, {0})
  /\ utcOffset \in Zones
  /\ consumer = "HomeDashboard"
  /\ InitChat
  /\ chatKind = "ChatWidget"
LabelSpec == LabelInit /\ [][SelectNext]_vars

====
